---------------------------- MODULE Spec2Model ----------------------------
(* State machine of the drive front-end's App component: session, folder  *)
(* navigation with its breadcrumb path, content listing, and the mutating *)
(* requests, with every backend request that is in flight.  One action    *)
(* per event handler, per effect-triggering response, per user step.      *)
(* State updates made in one handler turn, and the effects that the       *)
(* resulting render runs, are one step (React 18 batches them).           *)
EXTENDS Bags, FiniteSets, Integers, Sequences, TLC

(* ------------------------------ bounds -------------------------------- *)
\* Most backend requests, logout requests aside, outstanding at one time.
MaxInFlight == 2
\* Most logout requests outstanding at one time.
MaxLogouts == 1
\* Longest folder list and longest file list a listing holds (sort inputs).
MaxListing == 2

(* --------------------- values and the backend world -------------------- *)
Null == "null"
\* Names are sequences of collation ranks of their letters.
RootName == <<18, 15, 15, 20>>
RootEntry == [id |-> Null, name |-> RootName]
RootPath == <<RootEntry>>
UserRecord == "u1"

FolderIds == {"f1", "f2"}
FileIds == {"x1", "x2"}
FolderTargets == FolderIds \cup {Null}

\* What the backend answers for GET /api/folders?parentId=p (untagged).
BackendFolders(p) ==
    CASE p = Null -> <<[id |-> "f1", name |-> <<2>>]>>
      [] p = "f1" -> <<[id |-> "f2", name |-> <<1>>]>>
      [] OTHER    -> << >>

\* What the backend answers for GET /api/files?folderId=p (untagged).
BackendFiles(p) ==
    CASE p = Null -> <<[id |-> "x1", name |-> <<1>>]>>
      [] p = "f1" -> <<[id |-> "x2", name |-> <<1, 2>>]>>
      [] OTHER    -> << >>

\* Failures of a settled request, by err.response.status; the code tells 401 and
\* 404 from the rest ("500": any other failure, with or without a response).
ErrorStatuses == {"401", "404", "500"}
\* Failures of the requests whose handlers do not look at the status.
OtherErrors == {"401", "500"}
FolderShapes == {"array", "nested", "other"}
FileShapes == {"array", "other"}

Req(k, f, t) == [kind |-> k, folderId |-> f, showToast |-> t]
MutationKinds == {"upload", "createFolder", "delete", "update"}

(* ----------------------------- variables ------------------------------ *)
VARIABLES
    user,             \* useState(null): the session
    isAuthenticating, \* useState(true)
    items,            \* useState([])
    isLoading,        \* useState(false): the busy flag
    currentFolderId,  \* useState(null)
    breadcrumbPath,   \* useState([{id: null, name: 'Root'}])
    updateInput,      \* updateFileInputRef: folder its onchange closure captured, or "none"
    fileToUpdateId,   \* fileToUpdateIdRef: TRUE when it holds a file id
    dialog,           \* TRUE while the hidden input's file picker is open
    inflight,         \* bag of backend requests awaiting their response
    last              \* the last handler turn: its name, outcome, toasts, navigation

vars == <<user, isAuthenticating, items, isLoading, currentFolderId, breadcrumbPath,
          updateInput, fileToUpdateId, dialog, inflight, last>>

NoInput == "none"

\* nav: the branch navigateToFolder took in that handler turn, "none" without a call.
Ev(op, nav, st, ts) == [op |-> op, nav |-> nav, status |-> st, toasts |-> ts]

(* ------------------------- bags of requests ---------------------------- *)
One(r) == SetToBag({r})
Pending(r) == BagIn(r, inflight)
Copies(r) == CopiesIn(r, inflight)
LogoutCount == Copies(Req("logout", Null, TRUE)) + Copies(Req("logout", Null, FALSE))
InFlightCount == BagCardinality(inflight)
CanSend == InFlightCount - LogoutCount < MaxInFlight
CanSendLogout == LogoutCount < MaxLogouts

(* --------------------------- pure helpers ------------------------------ *)
\* a.name.localeCompare(b.name): -1, 0 or 1, by collation rank, a prefix first.
RECURSIVE LocaleCompare(_, _)
LocaleCompare(a, b) ==
    IF a = << >> /\ b = << >> THEN 0
    ELSE IF a = << >> THEN -1
    ELSE IF b = << >> THEN 1
    ELSE IF Head(a) < Head(b) THEN -1
    ELSE IF Head(a) > Head(b) THEN 1
    ELSE LocaleCompare(Tail(a), Tail(b))

\* The comparator without its two type tests: by name only.
CompareItemsByNameOnly(a, b) == LocaleCompare(a.name, b.name)

\* The comparator of combinedItems.sort.
CompareItems(a, b) ==
    IF a.type = "folder" /\ b.type = "file" THEN -1
    ELSE IF a.type = "file" /\ b.type = "folder" THEN 1
    ELSE LocaleCompare(a.name, b.name)

\* Array.prototype.sort is stable: x goes behind every element not greater than it.
RECURSIVE InsertItem(_, _)
InsertItem(x, s) ==
    IF s = << >> THEN <<x>>
    ELSE IF CompareItems(Head(s), x) > 0 THEN <<x>> \o s
    ELSE <<Head(s)>> \o InsertItem(x, Tail(s))

RECURSIVE SortItems(_)
SortItems(s) ==
    IF s = << >> THEN << >>
    ELSE InsertItem(s[Len(s)], SortItems(SubSeq(s, 1, Len(s) - 1)))

\* data.map(f => ({...f, type: t}))
Tag(s, t) == [i \in 1..Len(s) |-> [id |-> s[i].id, name |-> s[i].name, type |-> t]]

\* The folders fetchItems keeps from folderRes, by the shape of its data.
FetchedFolders(shape, data) ==
    IF shape \in {"array", "nested"} THEN Tag(data, "folder") ELSE << >>

\* The files fetchItems keeps from fileRes, by the shape of its data.
FetchedFiles(shape, data) ==
    IF shape = "array" THEN Tag(data, "file") ELSE << >>

\* fetchItems storing the folders only: [...fetchedFolders].
CombinedItemsFoldersOnly(fshape, fdata, xshape, xdata) ==
    SortItems(FetchedFolders(fshape, fdata))

\* The list fetchItems stores on success.
CombinedItems(fshape, fdata, xshape, xdata) ==
    SortItems(FetchedFolders(fshape, fdata) \o FetchedFiles(xshape, xdata))

\* prevPath.findIndex(f => f.id === folderId), 1-based; 0 when absent (JS: -1).
FindIndex(p, id) ==
    IF \E i \in 1..Len(p) : p[i].id = id
    THEN CHOOSE i \in 1..Len(p) : p[i].id = id /\ \A j \in 1..(i - 1) : p[j].id # id
    ELSE 0

\* navigateToFolder slicing one entry short: prevPath.slice(0, existingIndex).
NavPathSliceShort(p, folderId, name) ==
    IF folderId = Null THEN RootPath
    ELSE IF FindIndex(p, folderId) # 0
         THEN SubSeq(p, 1, FindIndex(p, folderId) - 1)
         ELSE Append(p, [id |-> folderId, name |-> name])

\* navigateToFolder keeping the whole path when the folder is found in it.
NavPathKeepsTail(p, folderId, name) ==
    IF folderId = Null THEN RootPath
    ELSE IF FindIndex(p, folderId) # 0
         THEN p
         ELSE Append(p, [id |-> folderId, name |-> name])

\* navigateToFolder putting the new entry in front: [{...}, ...prevPath].
NavPathPrepends(p, folderId, name) ==
    IF folderId = Null THEN RootPath
    ELSE IF FindIndex(p, folderId) # 0
         THEN SubSeq(p, 1, FindIndex(p, folderId))
         ELSE <<[id |-> folderId, name |-> name]>> \o p

\* navigateToFolder without the findIndex test: always appends.
NavPathAlwaysAppends(p, folderId, name) ==
    IF folderId = Null THEN RootPath
    ELSE Append(p, [id |-> folderId, name |-> name])

\* The breadcrumb path navigateToFolder(folderId, name) leaves.
NavPath(p, folderId, name) ==
    IF folderId = Null THEN RootPath
    ELSE IF FindIndex(p, folderId) # 0
         THEN SubSeq(p, 1, FindIndex(p, folderId))
         ELSE Append(p, [id |-> folderId, name |-> name])

\* The branch navigateToFolder takes.
NavKind(p, folderId) ==
    IF folderId = Null THEN "root" ELSE IF FindIndex(p, folderId) # 0 THEN "up" ELSE "down"

\* The logged-in view is rendered (and not covered by a file picker).
LoggedInView == user # Null /\ ~isAuthenticating /\ ~dialog
\* The auth form is rendered.
AuthFormView == user = Null /\ ~isAuthenticating /\ ~dialog

(* ------------------------------- Init ---------------------------------- *)
\* After mount: checkAuth has sent the profile request, the second effect
\* has run with no user (its resets change nothing).
Init ==
    /\ user = Null
    /\ isAuthenticating = TRUE
    /\ items = << >>
    /\ isLoading = FALSE
    /\ currentFolderId = Null
    /\ breadcrumbPath = RootPath
    /\ updateInput = NoInput
    /\ fileToUpdateId = FALSE
    /\ dialog = FALSE
    /\ inflight = One(Req("profile", Null, FALSE))
    /\ last = Ev("mount", "none", "none", {})


(* ------------------- effects and shared handler parts ------------------ *)
\* useEffect [user, isAuthenticating], first branch: the initial root fetch.
EffectFetchesRoot(u, loading, authenticating, cfi, its) ==
    u # Null /\ ~loading /\ ~authenticating /\ cfi = Null /\ its = << >>

\* useEffect [user, isAuthenticating], second branch: the reset with no user.
EffectResets(u) == u = Null

\* What an await in a handler leaves unchanged in the form and file-input state.
FormUnchanged == UNCHANGED <<updateInput, fileToUpdateId, dialog>>

(* ------------------------------ session -------------------------------- *)
\* checkAuth: the profile request succeeded.
CheckAuthOk ==
    LET r == Req("profile", Null, FALSE)
        fetch == EffectFetchesRoot(UserRecord, isLoading, FALSE, currentFolderId, items)
    IN  /\ Pending(r)
        /\ user' = UserRecord
        /\ isAuthenticating' = FALSE
        /\ isLoading' = (isLoading \/ fetch)
        /\ inflight' = IF fetch THEN (inflight (-) One(r)) (+) One(Req("fetch", Null, FALSE))
                       ELSE inflight (-) One(r)
        /\ last' = Ev("checkAuth", "none", "200", {})
        /\ UNCHANGED <<items, currentFolderId, breadcrumbPath>>
        /\ FormUnchanged

\* checkAuth without its finally: a failed profile request leaves
\* isAuthenticating set.
CheckAuthFailKeepsAuthenticating ==
    LET r == Req("profile", Null, FALSE)
    IN  /\ Pending(r)
        /\ \E st \in OtherErrors : last' = Ev("checkAuth", "none", st, {})
        /\ user' = Null
        /\ inflight' = inflight (-) One(r)
        /\ UNCHANGED <<isAuthenticating, items, breadcrumbPath, currentFolderId, isLoading>>
        /\ FormUnchanged

\* checkAuth: the profile request failed (silently).
CheckAuthFail ==
    LET r == Req("profile", Null, FALSE)
    IN  /\ Pending(r)
        /\ \E st \in OtherErrors : last' = Ev("checkAuth", "none", st, {})
        /\ user' = Null
        /\ isAuthenticating' = FALSE
        /\ items' = IF EffectResets(Null) THEN << >> ELSE items
        /\ breadcrumbPath' = IF EffectResets(Null) THEN RootPath ELSE breadcrumbPath
        /\ currentFolderId' = IF EffectResets(Null) THEN Null ELSE currentFolderId
        /\ inflight' = inflight (-) One(r)
        /\ UNCHANGED isLoading
        /\ FormUnchanged

\* handleAuth up to its await: the form is submitted (its button is enabled).
HandleAuthSubmit ==
    /\ AuthFormView
    /\ ~isLoading
    /\ CanSend
    /\ isLoading' = TRUE
    /\ inflight' = inflight (+) One(Req("auth", Null, FALSE))
    /\ last' = Ev("handleAuth", "none", "sent", {})
    /\ UNCHANGED <<user, isAuthenticating, items, currentFolderId, breadcrumbPath>>
    /\ FormUnchanged

\* handleAuth after its await: a response with a user record that has an id.
HandleAuthOk ==
    LET r == Req("auth", Null, FALSE)
        fetch == EffectFetchesRoot(UserRecord, FALSE, isAuthenticating, currentFolderId, items)
    IN  /\ Pending(r)
        /\ user' = UserRecord
        /\ isLoading' = fetch
        /\ inflight' = IF fetch THEN (inflight (-) One(r)) (+) One(Req("fetch", Null, FALSE))
                       ELSE inflight (-) One(r)
        /\ last' = Ev("handleAuth", "none", "200", {"success"})
        /\ UNCHANGED <<isAuthenticating, items, currentFolderId, breadcrumbPath>>
        /\ FormUnchanged

\* handleAuth resetting the busy flag in its try only: a failure leaves it set.
HandleAuthFailKeepsLoading ==
    LET r == Req("auth", Null, FALSE)
    IN  /\ Pending(r)
        /\ \E st \in OtherErrors \cup {"invalid"} : last' = Ev("handleAuth", "none", st, {"error"})
        /\ inflight' = inflight (-) One(r)
        /\ UNCHANGED <<user, isAuthenticating, items, isLoading, currentFolderId, breadcrumbPath>>
        /\ FormUnchanged

\* handleAuth after its await: an error, or a response without a valid user.
HandleAuthFail ==
    LET r == Req("auth", Null, FALSE)
    IN  /\ Pending(r)
        /\ \E st \in OtherErrors \cup {"invalid"} : last' = Ev("handleAuth", "none", st, {"error"})
        /\ isLoading' = FALSE
        /\ inflight' = inflight (-) One(r)
        /\ UNCHANGED <<user, isAuthenticating, items, currentFolderId, breadcrumbPath>>
        /\ FormUnchanged

\* handleLogout() from the Logout button, up to its await.
LogoutClick ==
    /\ LoggedInView
    /\ CanSendLogout
    /\ inflight' = inflight (+) One(Req("logout", Null, TRUE))
    /\ last' = Ev("handleLogout", "none", "sent", {})
    /\ UNCHANGED <<user, isAuthenticating, items, isLoading, currentFolderId, breadcrumbPath>>
    /\ FormUnchanged

\* handleLogout's finally clears the session only after a successful call.
UserAfterLogoutOnSuccess(u, st) == IF st = "200" THEN Null ELSE u

\* The session handleLogout leaves once its request has settled (finally).
UserAfterLogout(u, st) == Null

\* handleLogout after its await (either outcome): setUser(null); the effect
\* runs only when that changes user.
LogoutSettle(showToast, st) ==
    LET r == Req("logout", Null, showToast)
        u == UserAfterLogout(user, st)
        ran == u # user
    IN  /\ Pending(r)
        /\ user' = u
        /\ items' = IF ran /\ EffectResets(u) THEN << >> ELSE items
        /\ breadcrumbPath' = IF ran /\ EffectResets(u) THEN RootPath ELSE breadcrumbPath
        /\ currentFolderId' = IF ran /\ EffectResets(u) THEN Null ELSE currentFolderId
        /\ inflight' = inflight (-) One(r)
        /\ last' = Ev(IF showToast THEN "handleLogout" ELSE "handleLogout401", "none", st,
                      IF ~showToast THEN {} ELSE IF st = "200" THEN {"success"} ELSE {"error"})
        /\ UNCHANGED <<isAuthenticating, isLoading>>
        /\ FormUnchanged

(* ----------------------------- navigation ------------------------------ *)
\* navigateToFolder without its fetchItems call.
NavigateToFolderNoFetch(folderId, name) ==
    /\ currentFolderId' = folderId
    /\ breadcrumbPath' = NavPath(breadcrumbPath, folderId, name)
    /\ last' = Ev("navigateToFolder", NavKind(breadcrumbPath, folderId), "sent", {})
    /\ UNCHANGED <<user, isAuthenticating, items, isLoading, inflight>>
    /\ FormUnchanged

\* navigateToFolder(folderId, name): state updates and the fetch it starts.
NavigateToFolder(folderId, name) ==
    /\ currentFolderId' = folderId
    /\ breadcrumbPath' = NavPath(breadcrumbPath, folderId, name)
    /\ isLoading' = TRUE
    /\ inflight' = inflight (+) One(Req("fetch", folderId, FALSE))
    /\ last' = Ev("navigateToFolder", NavKind(breadcrumbPath, folderId), "sent", {})
    /\ UNCHANGED <<user, isAuthenticating, items>>
    /\ FormUnchanged

\* A folder row's button (enabled also while loading).
FolderRowClick ==
    /\ LoggedInView
    /\ CanSend
    /\ \E i \in 1..Len(items) :
         /\ items[i].type = "folder"
         /\ NavigateToFolder(items[i].id, items[i].name)

\* A breadcrumb button: every entry but the last, disabled while loading.
BreadcrumbClick ==
    /\ LoggedInView
    /\ ~isLoading
    /\ CanSend
    /\ \E i \in 1..(Len(breadcrumbPath) - 1) :
         NavigateToFolder(breadcrumbPath[i].id, breadcrumbPath[i].name)

(* ---------------------------- content lister --------------------------- *)
\* fetchItems without the setIsLoading(false) of its finally on the success path.
FetchItemsOkKeepsLoading(f, fshape, fdata, xshape, xdata) ==
    LET r == Req("fetch", f, FALSE)
    IN  /\ Pending(r)
        /\ items' = CombinedItems(fshape, fdata, xshape, xdata)
        /\ inflight' = inflight (-) One(r)
        /\ last' = Ev("fetchItems", "none", "200", {})
        /\ UNCHANGED <<user, isAuthenticating, isLoading, currentFolderId, breadcrumbPath>>
        /\ FormUnchanged

\* fetchItems(f) after its await, both requests answered.
FetchItemsOk(f, fshape, fdata, xshape, xdata) ==
    LET r == Req("fetch", f, FALSE)
    IN  /\ Pending(r)
        /\ items' = CombinedItems(fshape, fdata, xshape, xdata)
        /\ isLoading' = FALSE
        /\ inflight' = inflight (-) One(r)
        /\ last' = Ev("fetchItems", "none", "200", {})
        /\ UNCHANGED <<user, isAuthenticating, currentFolderId, breadcrumbPath>>
        /\ FormUnchanged

\* The backend's answer to a listing of f, in each shape the code accepts.
FetchItemsSucceeds ==
    \E f \in FolderTargets, fshape \in FolderShapes, xshape \in FileShapes :
        FetchItemsOk(f, fshape, BackendFolders(f), xshape, BackendFiles(f))

\* The catch branch of fetchItems without its folderId !== null test.
FallsBackToRootAlsoForRoot(f, st) == st = "404"

\* The catch branch of fetchItems without its 404 test.
FallsBackToRootNever(f, st) == FALSE

\* The catch branch of fetchItems runs the 404 fallback.
FallsBackToRoot(f, st) == st = "404" /\ f # Null

\* The catch branch of fetchItems logs out.
LogsOutOn(st) == st = "401"

\* fetchItems(f) after its await, Promise.all rejected with status st.
FetchItemsFail(f, st) ==
    LET r == Req("fetch", f, FALSE)
        rest == inflight (-) One(r)
    IN  /\ Pending(r)
        /\ LogsOutOn(st) => CanSendLogout
        /\ inflight' = IF LogsOutOn(st) THEN rest (+) One(Req("logout", Null, FALSE))
                       ELSE IF FallsBackToRoot(f, st) THEN rest (+) One(Req("fetch", Null, FALSE))
                       ELSE rest
        /\ currentFolderId' = IF FallsBackToRoot(f, st) THEN Null ELSE currentFolderId
        /\ breadcrumbPath' = IF FallsBackToRoot(f, st)
                             THEN NavPath(breadcrumbPath, Null, RootName) ELSE breadcrumbPath
        /\ isLoading' = FALSE
        /\ last' = Ev("fetchItems", IF FallsBackToRoot(f, st) THEN "root" ELSE "none", st,
                      IF LogsOutOn(st) THEN {"error", "info"}
                      ELSE IF FallsBackToRoot(f, st) THEN {"error", "warn"} ELSE {"error"})
        /\ UNCHANGED <<user, isAuthenticating, items>>
        /\ FormUnchanged

FetchItemsFails ==
    \E f \in FolderTargets, st \in ErrorStatuses : FetchItemsFail(f, st)

(* ------------------------------ mutations ------------------------------ *)
\* What a mutation handler leaves unchanged when it sends its request.
SendUnchanged == UNCHANGED <<user, isAuthenticating, items, currentFolderId, breadcrumbPath>>

\* handleFileUpload sending no folder: the upload goes to root.
HandleFileUploadToRoot ==
    /\ LoggedInView
    /\ ~isLoading
    /\ CanSend
    /\ isLoading' = TRUE
    /\ inflight' = inflight (+) One(Req("upload", Null, FALSE))
    /\ last' = Ev("handleFileUpload", "none", "sent", {})
    /\ SendUnchanged
    /\ FormUnchanged

\* handleFileUpload up to its await.  The button needs a selected file (the
\* user's input here: the file input is enabled exactly when the button can be)
\* and no loading.
HandleFileUpload ==
    /\ LoggedInView
    /\ ~isLoading
    /\ CanSend
    /\ isLoading' = TRUE
    /\ inflight' = inflight (+) One(Req("upload", currentFolderId, FALSE))
    /\ last' = Ev("handleFileUpload", "none", "sent", {})
    /\ SendUnchanged
    /\ FormUnchanged

\* createFolder up to its await.  The button needs a non-blank name (the user's
\* input here: the text input is enabled exactly when the button can be) and no
\* loading.
CreateFolder ==
    /\ LoggedInView
    /\ ~isLoading
    /\ CanSend
    /\ isLoading' = TRUE
    /\ inflight' = inflight (+) One(Req("createFolder", currentFolderId, FALSE))
    /\ last' = Ev("createFolder", "none", "sent", {})
    /\ SendUnchanged
    /\ FormUnchanged

\* handleDelete(item), window.confirm accepted: up to its await.
HandleDeleteConfirmed ==
    /\ LoggedInView
    /\ ~isLoading
    /\ items # << >>
    /\ CanSend
    /\ isLoading' = TRUE
    /\ inflight' = inflight (+) One(Req("delete", currentFolderId, FALSE))
    /\ last' = Ev("handleDelete", "none", "sent", {})
    /\ SendUnchanged
    /\ FormUnchanged

\* handleDelete ignoring the answer of window.confirm: declined, yet sent.
HandleDeleteDeclinedSends ==
    /\ LoggedInView
    /\ ~isLoading
    /\ items # << >>
    /\ CanSend
    /\ isLoading' = TRUE
    /\ inflight' = inflight (+) One(Req("delete", currentFolderId, FALSE))
    /\ last' = Ev("handleDelete", "none", "declined", {})
    /\ SendUnchanged
    /\ FormUnchanged

\* handleDelete(item), window.confirm declined.
HandleDeleteDeclined ==
    /\ LoggedInView
    /\ ~isLoading
    /\ items # << >>
    /\ last' = Ev("handleDelete", "none", "declined", {})
    /\ SendUnchanged
    /\ UNCHANGED <<isLoading, inflight>>
    /\ FormUnchanged

\* triggerUpdateFile(fileId): a file row's Update button opens the picker of the
\* hidden input, created with this render's handleActualFileUpdate when none is kept.
TriggerUpdateFile ==
    /\ LoggedInView
    /\ ~isLoading
    /\ \E i \in 1..Len(items) : items[i].type = "file"
    /\ fileToUpdateId' = TRUE
    /\ updateInput' = IF updateInput = NoInput THEN currentFolderId ELSE updateInput
    /\ dialog' = TRUE
    /\ last' = Ev("triggerUpdateFile", "none", "opened", {})
    /\ SendUnchanged
    /\ UNCHANGED <<isLoading, inflight>>

\* The picker is dismissed: no change event, the input is kept.
FilePickerCancel ==
    /\ dialog
    /\ dialog' = FALSE
    /\ last' = Ev("filePicker", "none", "cancelled", {})
    /\ SendUnchanged
    /\ UNCHANGED <<isLoading, inflight, updateInput, fileToUpdateId>>

\* handleActualFileUpdate returns early: no file id is held, or confirm declined.
HandleActualFileUpdateReturns ==
    /\ dialog
    /\ \E confirmed \in BOOLEAN :
         /\ ~fileToUpdateId \/ ~confirmed
         /\ last' = Ev("handleActualFileUpdate", "none",
                       IF ~fileToUpdateId THEN "noFileId" ELSE "declined", {})
    /\ dialog' = FALSE
    /\ updateInput' = NoInput
    /\ SendUnchanged
    /\ UNCHANGED <<isLoading, inflight, fileToUpdateId>>

\* handleActualFileUpdate, confirm accepted: up to its await.  currentFolderId
\* is the one its closure captured when the input was created (a file id is
\* held only while that input is).
HandleActualFileUpdateConfirmed ==
    /\ dialog
    /\ fileToUpdateId
    /\ CanSend
    /\ isLoading' = TRUE
    /\ inflight' = inflight (+) One(Req("update", updateInput, FALSE))
    /\ dialog' = FALSE
    /\ last' = Ev("handleActualFileUpdate", "none", "sent", {})
    /\ SendUnchanged
    /\ UNCHANGED <<updateInput, fileToUpdateId>>

\* The success branch of a mutation handler reaches its fetchItems call
\* (handleFileUpload's names an undeclared identifier and throws instead).
RefetchesOnSuccess(kind) == kind # "upload"

\* The folder the success branch refetches: the one captured before the await.
RefetchTarget(kind, captured, current) == captured

\* The toasts of a mutation's success branch.
SuccessToasts(kind) == IF RefetchesOnSuccess(kind) THEN {"success"} ELSE {"success", "error"}

\* A mutation handler after its await, request succeeded.
MutationOk(kind, target) ==
    LET r == Req(kind, target, FALSE)
        f == RefetchTarget(kind, target, currentFolderId)
    IN  /\ Pending(r)
        /\ isLoading' = RefetchesOnSuccess(kind)
        /\ inflight' = IF RefetchesOnSuccess(kind)
                       THEN (inflight (-) One(r)) (+) One(Req("fetch", f, FALSE))
                       ELSE inflight (-) One(r)
        /\ updateInput' = IF kind = "update" THEN NoInput ELSE updateInput
        /\ fileToUpdateId' = IF kind = "update" THEN FALSE ELSE fileToUpdateId
        /\ last' = Ev(kind, "none", "200", SuccessToasts(kind))
        /\ SendUnchanged
        /\ UNCHANGED dialog

MutationSucceeds ==
    \E kind \in MutationKinds, target \in FolderTargets : MutationOk(kind, target)

\* A mutation handler whose catch branch refetches the folder like the success
\* branch does.
MutationFailRefetches(kind, target, st) ==
    LET r == Req(kind, target, FALSE)
    IN  /\ Pending(r)
        /\ isLoading' = TRUE
        /\ inflight' = (inflight (-) One(r)) (+) One(Req("fetch", target, FALSE))
        /\ updateInput' = IF kind = "update" THEN NoInput ELSE updateInput
        /\ fileToUpdateId' = IF kind = "update" THEN FALSE ELSE fileToUpdateId
        /\ last' = Ev(kind, "none", st, {"error"})
        /\ SendUnchanged
        /\ UNCHANGED dialog

\* A mutation handler after its await, request failed with status st.
MutationFail(kind, target, st) ==
    LET r == Req(kind, target, FALSE)
    IN  /\ Pending(r)
        /\ isLoading' = FALSE
        /\ inflight' = inflight (-) One(r)
        /\ updateInput' = IF kind = "update" THEN NoInput ELSE updateInput
        /\ fileToUpdateId' = IF kind = "update" THEN FALSE ELSE fileToUpdateId
        /\ last' = Ev(kind, "none", st, {"error"})
        /\ SendUnchanged
        /\ UNCHANGED dialog

MutationFails ==
    \E kind \in MutationKinds, target \in FolderTargets, st \in OtherErrors :
        MutationFail(kind, target, st)

(* ------------------------------ download ------------------------------- *)
\* downloadFile up to its await (a file row's button, disabled while loading).
DownloadFile ==
    /\ LoggedInView
    /\ ~isLoading
    /\ \E i \in 1..Len(items) : items[i].type = "file"
    /\ CanSend
    /\ inflight' = inflight (+) One(Req("download", Null, FALSE))
    /\ last' = Ev("downloadFile", "none", "sent", {"info"})
    /\ SendUnchanged
    /\ UNCHANGED isLoading
    /\ FormUnchanged

\* downloadFile after its await: saved, or an error toast; no state is set.
DownloadSettle ==
    /\ Pending(Req("download", Null, FALSE))
    /\ inflight' = inflight (-) One(Req("download", Null, FALSE))
    /\ \E st \in OtherErrors \cup {"200"} :
         last' = Ev("downloadFile", "none", st, IF st = "200" THEN {"success"} ELSE {"error"})
    /\ SendUnchanged
    /\ UNCHANGED isLoading
    /\ FormUnchanged

(* ---------------------------- specification ---------------------------- *)
LogoutSettles ==
    \E showToast \in BOOLEAN, st \in OtherErrors \cup {"200"} : LogoutSettle(showToast, st)

Next ==
    \/ CheckAuthOk
    \/ CheckAuthFail
    \/ HandleAuthSubmit
    \/ HandleAuthOk
    \/ HandleAuthFail
    \/ LogoutClick
    \/ LogoutSettles
    \/ FolderRowClick
    \/ BreadcrumbClick
    \/ FetchItemsSucceeds
    \/ FetchItemsFails
    \/ HandleFileUpload
    \/ CreateFolder
    \/ HandleDeleteConfirmed
    \/ HandleDeleteDeclined
    \/ TriggerUpdateFile
    \/ FilePickerCancel
    \/ HandleActualFileUpdateReturns
    \/ HandleActualFileUpdateConfirmed
    \/ MutationSucceeds
    \/ MutationFails
    \/ DownloadFile
    \/ DownloadSettle

Spec == Init /\ [][Next]_vars

(* ------------------------ responses do arrive ------------------------- *)
\* The steps the backend's answers cause.
Responses ==
    \/ CheckAuthOk
    \/ CheckAuthFail
    \/ HandleAuthOk
    \/ HandleAuthFail
    \/ LogoutSettles
    \/ FetchItemsSucceeds
    \/ FetchItemsFails
    \/ MutationSucceeds
    \/ MutationFails
    \/ DownloadSettle

\* The steps the user's input causes.
UserActs ==
    \/ HandleAuthSubmit
    \/ LogoutClick
    \/ FolderRowClick
    \/ BreadcrumbClick
    \/ HandleFileUpload
    \/ CreateFolder
    \/ HandleDeleteConfirmed
    \/ HandleDeleteDeclined
    \/ TriggerUpdateFile
    \/ FilePickerCancel
    \/ HandleActualFileUpdateReturns
    \/ HandleActualFileUpdateConfirmed
    \/ DownloadFile

\* While a request is outstanding a response keeps arriving (which one is left
\* open); the user may stop acting at any point.
FullLiveSpec == Init /\ [][Next]_vars /\ WF_vars(Responses)

\* The same without the replace-file dialog and the declined delete: login,
\* logout, navigation, upload, create-folder, delete and download.
LiveNext ==
    \/ Responses
    \/ HandleAuthSubmit
    \/ LogoutClick
    \/ FolderRowClick
    \/ BreadcrumbClick
    \/ HandleFileUpload
    \/ CreateFolder
    \/ HandleDeleteConfirmed
    \/ DownloadFile

LiveSpec == Init /\ [][LiveNext]_vars /\ WF_vars(Responses)

(* ------------------ the sort on every small listing -------------------- *)
SortNames == {<<1>>, <<2>>, <<1, 1>>}
SortFolderIds == <<"f1", "f2", "f3", "f4">>
SortFileIds == <<"x1", "x2", "x3", "x4">>

\* Every listing of at most MaxListing entries, ids by position, any names.
SortData(ids) ==
    UNION {{[i \in 1..n |-> [id |-> ids[i], name |-> nm[i]]] : nm \in [1..n -> SortNames]} :
           n \in 0..MaxListing}

\* Logged in at root, the initial root fetch in flight (the state CheckAuthOk leaves).
SortInit ==
    /\ user = UserRecord
    /\ isAuthenticating = FALSE
    /\ items = << >>
    /\ isLoading = TRUE
    /\ currentFolderId = Null
    /\ breadcrumbPath = RootPath
    /\ updateInput = NoInput
    /\ fileToUpdateId = FALSE
    /\ dialog = FALSE
    /\ inflight = One(Req("fetch", Null, FALSE))
    /\ last = Ev("checkAuth", "none", "200", {})

\* The root listing answered with any small listing, in any order.
SortFetchSucceeds ==
    \E fshape \in FolderShapes, xshape \in FileShapes,
       fdata \in SortData(SortFolderIds), xdata \in SortData(SortFileIds) :
        FetchItemsOk(Null, fshape, fdata, xshape, xdata)

\* Fetch answers, and the create-folder round that starts the next root fetch.
SortNext ==
    \/ SortFetchSucceeds
    \/ CreateFolder
    \/ MutationSucceeds

SortSpec == SortInit /\ [][SortNext]_vars

(* ------------------------------- claims -------------------------------- *)
InPath(p, id) == \E i \in 1..Len(p) : p[i].id = id
FetchCopies(b, f) == CopiesIn(Req("fetch", f, FALSE), b)
\* In this step navigateToFolder(f, _) ran (from a click or from the 404 fallback).
NavigatedTo(f) == last'.nav # "none" /\ currentFolderId' = f
\* This step handled the successful response of a mutation request.
MutationSucceeded == last'.op \in MutationKinds /\ last'.status = "200"

\* C1: in every reachable state the breadcrumb path is non-empty and its last
\* entry's id is currentFolderId.
C1_PathEndsAtCurrentFolder ==
    /\ Len(breadcrumbPath) >= 1
    /\ breadcrumbPath[Len(breadcrumbPath)].id = currentFolderId

\* C1 witness: a 404 answer for a folder other than root has run the fallback,
\* after which the path is [Root] and the open folder null.
C1_Witness ==
    /\ last.op = "fetchItems"
    /\ last.status = "404"
    /\ last.nav = "root"
    /\ breadcrumbPath = RootPath
    /\ currentFolderId = Null
    /\ user # Null

\* C2: navigateToFolder with a non-null id that is in the path leaves the prefix
\* of the previous path up to and including that id's entry.
C2_NavigateUpTruncates ==
    [][\A f \in FolderIds :
         (NavigatedTo(f) /\ InPath(breadcrumbPath, f))
         => \E k \in 1..Len(breadcrumbPath) :
              /\ breadcrumbPath[k].id = f
              /\ breadcrumbPath' = SubSeq(breadcrumbPath, 1, k)]_vars

\* C2 witness: a navigation up to f1 has run with no row of f1 in the list, so
\* from a breadcrumb that was not the last: the path was cut to [Root, f1].
C2_Witness ==
    /\ last.op = "navigateToFolder"
    /\ last.nav = "up"
    /\ Len(breadcrumbPath) = 2
    /\ currentFolderId = "f1"
    /\ \A i \in 1..Len(items) : items[i].id # "f1"

\* C3: navigateToFolder with a non-null id that is not in the path appends
\* {id, name} of the clicked folder row to the previous path, and with null it
\* leaves exactly the one-entry path [Root].
C3_NavigateDownAppendsRootResets ==
    [][/\ \A f \in FolderIds :
            (NavigatedTo(f) /\ ~InPath(breadcrumbPath, f))
            => \E i \in 1..Len(items) :
                 /\ items[i].type = "folder"
                 /\ items[i].id = f
                 /\ breadcrumbPath' =
                      breadcrumbPath \o <<[id |-> f, name |-> items[i].name]>>
       /\ NavigatedTo(Null) => breadcrumbPath' = <<[id |-> Null, name |-> RootName]>>]_vars

\* C3 witness: a navigation down has appended a third entry.
C3_Witness ==
    /\ last.nav = "down"
    /\ Len(breadcrumbPath) = 3

\* C4: in every reachable state no two entries of the path have the same id.
C4_PathIdsUnique ==
    \A i, j \in 1..Len(breadcrumbPath) :
        i # j => breadcrumbPath[i].id # breadcrumbPath[j].id

\* C4 witness: a stale folder row of a folder already in a three-entry path was
\* clicked (the navigation found it in the path).
C4_Witness ==
    /\ last.op = "navigateToFolder"
    /\ last.nav = "up"
    /\ Len(breadcrumbPath) = 3
    /\ isLoading

\* Alphabetical order of two names, stated without the comparator: a is a prefix
\* of b, or at the first place they differ a has the lower letter.
NameLeq(a, b) ==
    \E k \in 0..Len(a) :
        /\ k <= Len(b)
        /\ \A i \in 1..k : a[i] = b[i]
        /\ \/ k = Len(a)
           \/ (k < Len(b) /\ a[k + 1] < b[k + 1])

\* C5: after a successful fetchItems the stored list has every folder before
\* every file, and names ascending within the folders and within the files.
C5_ItemsSorted ==
    (last.op = "fetchItems" /\ last.status = "200")
    => \A i, j \in 1..Len(items) :
         i < j => /\ ~(items[i].type = "file" /\ items[j].type = "folder")
                  /\ items[i].type = items[j].type => NameLeq(items[i].name, items[j].name)

\* C5 witness: a listing of two folders and two files was stored, the folder the
\* backend sent second now first, and a file named before a folder behind it.
C5_Witness ==
    /\ last.op = "fetchItems"
    /\ Len(items) = 4
    /\ items[1].id = "f2"
    /\ items[1].name # items[2].name
    /\ items[3].id = "x2"
    /\ items[3].name = <<1>>
    /\ items[2].name = <<2>>

\* C6: when a logout request has settled, with success or with failure, the
\* session is null.
C6_LogoutClearsUser ==
    (last.op \in {"handleLogout", "handleLogout401"} /\ last.status # "sent")
    => user = Null

\* C6 witness: a logout asked for by the user settled with a failure.
C6_Witness ==
    /\ last.op = "handleLogout"
    /\ last.status = "500"
    /\ user = Null

\* C7 (as claimed): once the logout that a 401 fetch failure started has settled,
\* the session is null, the item list empty, the path [Root], the folder null.
C7_Claim_401ClearsSessionAndItems ==
    (last.op = "handleLogout401" /\ last.status # "sent")
    => /\ user = Null
       /\ items = << >>
       /\ breadcrumbPath = RootPath
       /\ currentFolderId = Null

\* C8 (as claimed): after a 401 answer to a content fetch, a mutation or a
\* download has been handled, the session is null or its logout is under way.
C8_Claim_Any401ClearsSession ==
    (last.status = "401" /\ last.op \in MutationKinds \cup {"fetchItems", "downloadFile"})
    => (user = Null \/ LogoutCount > 0)

\* C9 (as claimed): handling a mutation's successful response issues one
\* content fetch and shows a success toast and no error toast.
C9_Claim_SuccessRefetchesAndReportsSuccess ==
    [][MutationSucceeded
       => /\ \E f \in FolderTargets :
               FetchCopies(inflight', f) = FetchCopies(inflight, f) + 1
          /\ last'.toasts = {"success"}]_vars

\* C10 (as claimed): the content fetch issued on a mutation's successful
\* response is for the folder open at that moment.
C10_Claim_RefetchesOpenFolder ==
    [][MutationSucceeded
       => \A f \in FolderTargets :
            FetchCopies(inflight', f) > FetchCopies(inflight, f) => f = currentFolderId]_vars

\* This step handled the failed response of a mutation request.
MutationFailed == last'.op \in MutationKinds /\ last'.status \in OtherErrors

\* C11: handling the failure of a mutation request (upload, create-folder,
\* delete, replace) issues no content fetch, leaves the item list, the path,
\* the open folder and the session as they were, and sets the busy flag false.
C11_MutationFailureLeavesState ==
    [][MutationFailed
       => /\ \A f \in FolderTargets : FetchCopies(inflight', f) = FetchCopies(inflight, f)
          /\ items' = items
          /\ breadcrumbPath' = breadcrumbPath
          /\ currentFolderId' = currentFolderId
          /\ user' = user
          /\ isLoading' = FALSE]_vars

\* C11 witness: a delete in folder f1 failed; the listing of f1 is still shown.
C11_Witness ==
    /\ last.op = "delete"
    /\ last.status = "500"
    /\ currentFolderId = "f1"
    /\ Len(breadcrumbPath) = 2
    /\ items # << >>
    /\ user # Null
    /\ ~isLoading

\* C12: handling a 404 answer to the content fetch of a folder other than root
\* makes the open folder null and the path [Root], and issues a content fetch
\* for root.
C12_NotFoundFallsBackToRoot ==
    [][\A f \in FolderIds :
         (/\ last'.op = "fetchItems"
          /\ last'.status = "404"
          /\ FetchCopies(inflight', f) < FetchCopies(inflight, f))
         => /\ currentFolderId' = Null
            /\ breadcrumbPath' = RootPath
            /\ FetchCopies(inflight', Null) = FetchCopies(inflight, Null) + 1]_vars

\* C12 witness: the fetch of f2, opened from f1's listing, was answered 404: the
\* root fetch is in flight under a path that was three entries long.
C12_Witness ==
    /\ last.op = "fetchItems"
    /\ last.status = "404"
    /\ last.toasts = {"error", "warn"}
    /\ Pending(Req("fetch", Null, FALSE))
    /\ \E i \in 1..Len(items) : items[i].id = "f2"
    /\ breadcrumbPath = RootPath

\* The mutating requests awaiting their response.
MutationsInFlight ==
    BagCardinality([r \in {q \in BagToSet(inflight) : q.kind \in MutationKinds} |->
                       CopiesIn(r, inflight)])
\* The content fetches awaiting their response.
FetchesInFlight ==
    BagCardinality([r \in {q \in BagToSet(inflight) : q.kind = "fetch"} |->
                       CopiesIn(r, inflight)])

\* C13 (as claimed): in every reachable state at most one mutating request
\* (upload, create-folder, delete, replace) is in flight.
C13_Claim_OneMutationInFlight == MutationsInFlight <= 1

KindCopies(b, kind) ==
    BagCardinality([r \in {q \in BagToSet(b) : q.kind = kind} |-> CopiesIn(r, b)])

\* C15: a delete or replace request is dispatched only in the handler turn in
\* which the user accepted the confirmation; a turn in which the confirmation
\* was declined sends nothing and leaves the busy flag, the item list, the path,
\* the open folder and the session as they were.
C15_ConfirmBeforeDispatch ==
    [][/\ KindCopies(inflight', "delete") > KindCopies(inflight, "delete")
            => (last'.op = "handleDelete" /\ last'.status = "sent")
       /\ KindCopies(inflight', "update") > KindCopies(inflight, "update")
            => (last'.op = "handleActualFileUpdate" /\ last'.status = "sent")
       /\ last'.status = "declined"
            => /\ inflight' = inflight
               /\ isLoading' = isLoading
               /\ items' = items
               /\ breadcrumbPath' = breadcrumbPath
               /\ currentFolderId' = currentFolderId
               /\ user' = user]_vars

\* C15 witness: the confirmation of a replace was declined in folder f1 with
\* nothing in flight.
C15_Witness ==
    /\ last.op = "handleActualFileUpdate"
    /\ last.status = "declined"
    /\ InFlightCount = 0
    /\ currentFolderId = "f1"
    /\ ~isLoading

\* This step handled the response of a login/register request.
AuthSettled == last'.op = "handleAuth" /\ last'.status # "sent"

\* C16 (as claimed): handling the response of login/register sets the session
\* only when the call succeeded with a user record that has an id, leaves the
\* session as it was otherwise, and in both cases leaves the busy flag false.
C16_Claim_AuthSettlesNotBusy ==
    [][AuthSettled
       => /\ last'.status = "200" => user' = UserRecord
          /\ last'.status # "200" => user' = user
          /\ isLoading' = FALSE]_vars

\* C16 (amended): as claimed for the session; the busy flag is false after a
\* failure, and after a success it is true exactly when the new session made
\* the session effect start the root fetch, which it does when the open folder
\* is root and the item list empty.
C16_AuthSettles ==
    [][AuthSettled
       => /\ last'.status = "200" => user' = UserRecord
          /\ last'.status # "200" => (user' = user /\ isLoading' = FALSE)
          /\ last'.status = "200"
               => /\ isLoading' = (currentFolderId = Null /\ items = << >>)
                  /\ FetchCopies(inflight', Null)
                       = FetchCopies(inflight, Null) + (IF isLoading' THEN 1 ELSE 0)]_vars

\* C16 witness: a login succeeded from the auth form and the root fetch it
\* caused is the only request in flight.
C16_Witness ==
    /\ last.op = "handleAuth"
    /\ last.status = "200"
    /\ user = UserRecord
    /\ isLoading
    /\ inflight = One(Req("fetch", Null, FALSE))

\* The profile requests of checkAuth awaiting their response in bag b.
ProfileCopies(b) == CopiesIn(Req("profile", Null, FALSE), b)

\* C17: the profile request of checkAuth is sent once, at mount; while it is
\* outstanding isAuthenticating is true, nothing else is in flight and the only
\* step is its response; the response sets the session to the returned user on
\* success and to null, without any toast, on failure, and sets
\* isAuthenticating false; isAuthenticating never becomes true again.
C17_RestoreSessionOnce ==
    /\ [](ProfileCopies(inflight) > 0
            => (isAuthenticating /\ inflight = One(Req("profile", Null, FALSE))))
    /\ [][(ProfileCopies(inflight') <= ProfileCopies(inflight))
           /\ (ProfileCopies(inflight) > 0 => last'.op = "checkAuth")
           /\ (last'.op = "checkAuth"
                 => (/\ ProfileCopies(inflight') = 0
                     /\ ~isAuthenticating'
                     /\ last'.toasts = {}
                     /\ user' = IF last'.status = "200" THEN UserRecord ELSE Null))
           /\ (~isAuthenticating => ~isAuthenticating')]_vars

\* C17 witness: the profile request failed: the auth form is shown, nothing is
\* in flight and no toast was raised.
C17_Witness ==
    /\ last.op = "checkAuth"
    /\ last.status = "500"
    /\ last.toasts = {}
    /\ user = Null
    /\ ~isAuthenticating
    /\ InFlightCount = 0

\* C18: every call of navigateToFolder(f, _), from a folder row, a breadcrumb
\* or the 404 fallback, issues exactly one content fetch, and it is for f.
C18_NavigateFetchesTarget ==
    [][\A f \in FolderTargets :
         NavigatedTo(f)
         => /\ FetchCopies(inflight', f) = FetchCopies(inflight, f) + 1
            /\ \A g \in FolderTargets \ {f} :
                 FetchCopies(inflight', g) <= FetchCopies(inflight, g)]_vars

\* C18 witness: the Root breadcrumb was clicked from inside folder f1 and the
\* fetch of root is the only request in flight.
C18_Witness ==
    /\ last.op = "navigateToFolder"
    /\ last.nav = "root"
    /\ inflight = One(Req("fetch", Null, FALSE))
    /\ \E i \in 1..Len(items) : items[i].id = "f2"
    /\ currentFolderId = Null

\* C19: an upload or create-folder request enters flight only while the busy
\* flag is false, and with the folder open at that moment as its target.
C19_UploadCreateTargetOpenFolder ==
    [][\A kind \in {"upload", "createFolder"}, f \in FolderTargets :
         CopiesIn(Req(kind, f, FALSE), inflight') > CopiesIn(Req(kind, f, FALSE), inflight)
         => (f = currentFolderId /\ ~isLoading)]_vars

\* C19 witness: an upload was dispatched from inside folder f1.
C19_Witness ==
    /\ last.op = "handleFileUpload"
    /\ last.status = "sent"
    /\ Pending(Req("upload", "f1", FALSE))
    /\ currentFolderId = "f1"
    /\ isLoading

\* C20 (as claimed): in every reachable state in which a content fetch or a
\* mutating request is in flight the busy flag is true.
C20_Claim_BusyWhileInFlight ==
    (FetchesInFlight > 0 \/ MutationsInFlight > 0) => isLoading

\* C21 (as claimed): every step in which the session goes from absent to
\* present (login, register, session restore) issues a content fetch for root.
C21_Claim_NewSessionFetchesRoot ==
    [][(user = Null /\ user' # Null)
       => FetchCopies(inflight', Null) = FetchCopies(inflight, Null) + 1]_vars

\* A list holding exactly the entries of folders and files, tagged, in some order.
IsUnionOf(list, folders, files) ==
    /\ Len(list) = Len(folders) + Len(files)
    /\ \A i \in 1..Len(folders) :
         \E j \in 1..Len(list) :
             list[j] = [id |-> folders[i].id, name |-> folders[i].name, type |-> "folder"]
    /\ \A i \in 1..Len(files) :
         \E j \in 1..Len(list) :
             list[j] = [id |-> files[i].id, name |-> files[i].name, type |-> "file"]

\* The entries a result of the given shape holds (a result that is not a list
\* holds none).
ListedIn(shape, data) == IF shape = "other" THEN << >> ELSE data

\* C22: handling the failure of a content fetch (either of its two requests
\* failed) leaves the item list as it was; handling its success stores exactly
\* the folders and the files of the two results, each tagged with its type.
C22_FetchReplacesItemsAtomically ==
    [][(last'.op = "fetchItems" /\ last'.status # "200" => items' = items)
       /\ (\A f \in FolderTargets, fshape \in FolderShapes, xshape \in FileShapes :
             FetchItemsOk(f, fshape, BackendFolders(f), xshape, BackendFiles(f))
             => IsUnionOf(items', ListedIn(fshape, BackendFolders(f)),
                          ListedIn(xshape, BackendFiles(f))))]_vars

\* C22 witness: the listing of f1 was stored, its folder and its file both.
C22_Witness ==
    /\ last.op = "fetchItems"
    /\ last.status = "200"
    /\ currentFolderId = "f1"
    /\ Len(items) = 2
    /\ items[1].type = "folder"
    /\ items[2].id = "x2"
\* C23: the 404 fallback cannot loop. Handling any failure of a fetch of root
\* starts no fetch and navigates nowhere, and no fetchItems step raises the
\* number of content fetches in flight or starts a fetch of a folder other than
\* root: a navigation's fetch is followed by at most one more, of root.
C23_FallbackCannotLoop ==
    [][(\A st \in ErrorStatuses :
          FetchItemsFail(Null, st)
          => (/\ FetchesInFlight' = FetchesInFlight - 1
              /\ last'.nav = "none"
              /\ currentFolderId' = currentFolderId
              /\ breadcrumbPath' = breadcrumbPath))
       /\ (last'.op = "fetchItems"
           => (/\ FetchesInFlight' <= FetchesInFlight
               /\ \A f \in FolderIds :
                    FetchCopies(inflight', f) <= FetchCopies(inflight, f)))]_vars

\* C23 witness: a fetch of root was answered 404 while folder f1's listing was
\* shown; nothing is in flight afterwards.
C23_Witness ==
    /\ last = Ev("fetchItems", "none", "404", {"error"})
    /\ InFlightCount = 0
    /\ currentFolderId = Null
    /\ \E i \in 1..Len(items) : items[i].id = "f2"
\* C24 (as claimed): whenever the user is logged in, nothing is in flight and
\* the last request handled was a content fetch that succeeded, the item list is
\* the backend's listing of the folder currentFolderId (in one of the shapes the
\* backend answers in).
C24_Claim_ItemsMatchCurrentFolder ==
    (user # Null /\ InFlightCount = 0 /\ last.op = "fetchItems" /\ last.status = "200")
    => \E fshape \in FolderShapes, xshape \in FileShapes :
         items = CombinedItems(fshape, BackendFolders(currentFolderId),
                               xshape, BackendFiles(currentFolderId))

\* Folder id is listed by the backend as a child of folder parent.
IsChildOf(id, parent) ==
    \E i \in 1..Len(BackendFolders(parent)) : BackendFolders(parent)[i].id = id

\* C25 (as claimed): in every reachable state the breadcrumb path starts with the
\* root sentinel and each later entry is a child of the entry before it.
C25_Claim_PathIsAncestryChain ==
    /\ Len(breadcrumbPath) >= 1
    /\ breadcrumbPath[1] = RootEntry
    /\ \A i \in 2..Len(breadcrumbPath) :
         IsChildOf(breadcrumbPath[i].id, breadcrumbPath[i - 1].id)

\* C26 (as claimed): whenever no user is logged in and no request is in flight,
\* the item list is empty, the path is [Root] and currentFolderId is null.
C26_Claim_LoggedOutStateIsReset ==
    (user = Null /\ InFlightCount = 0)
    => (items = << >> /\ breadcrumbPath = RootPath /\ currentFolderId = Null)
(* ------------- a new session with fetches of the old one pending -------- *)
\* The state after: session restored, root listed, the row of f1 clicked twice,
\* Logout clicked and the logout request answered 200. No user is logged in and
\* the two fetches of f1 issued in the closed session are still in flight.
StaleInit ==
    /\ user = Null
    /\ isAuthenticating = FALSE
    /\ items = << >>
    /\ isLoading = TRUE
    /\ currentFolderId = Null
    /\ breadcrumbPath = RootPath
    /\ updateInput = NoInput
    /\ fileToUpdateId = FALSE
    /\ dialog = FALSE
    /\ inflight = One(Req("fetch", "f1", FALSE)) (+) One(Req("fetch", "f1", FALSE))
    /\ last = Ev("handleLogout", "none", "200", {"success"})

\* A fetch of f1 fails. From StaleInit on no step navigates to f1, so every
\* fetch of f1 that is answered was issued in the session closed before.
StaleFetchFails == \E st \in ErrorStatuses : FetchItemsFail("f1", st)

\* The user only logs in: no Logout click and no navigation. The fetches issued
\* from here on (of root, by the effect or the 404 fallback) succeed.
StaleNext ==
    \/ HandleAuthSubmit
    \/ HandleAuthOk
    \/ HandleAuthFail
    \/ FetchItemsSucceeds
    \/ StaleFetchFails
    \/ LogoutSettles

StaleSpec == StaleInit /\ [][StaleNext]_vars

\* C27 (as claimed): a session is cleared only by a logout the user requested
\* in it or by a 401 answer to a request issued in it. From StaleInit the user
\* never clicks Logout and only fetches of the closed session fail, so no step
\* clears a session.
C27_Claim_SessionOutlivesStaleAnswers ==
    [][user # Null => user' # Null]_vars
=============================================================================
